---------------------------- MODULE Spec2Model ----------------------------
(***************************************************************************)
(* Model of bigfish/detection/spot_detection.py: spot detection (LoG +     *)
(* local maximum + threshold), connected-region filtering and per-spot     *)
(* signal-to-noise estimation.  Every function of the module is a pure     *)
(* function of its arguments, so the state is one call: the entry point    *)
(* called (fn), its arguments (args, fields named as the parameters), the  *)
(* position of the call (pc) and what it returned or raised (ret);         *)
(* handed records the arguments compute_snr passes on to                   *)
(* from_threshold_to_snr.                                                  *)
(*                                                                         *)
(* Arrays are records [shape, dtype, px, nan]: px maps every index tuple   *)
(* (0-based, as in numpy) to the stored value, nan is the set of index     *)
(* tuples holding NaN.  Python numbers are records [type, num, den] so     *)
(* that int and float arguments stay distinguishable (isinstance) and      *)
(* fractional values are exact rationals num/den.                          *)
(***************************************************************************)
EXTENDS Integers, Sequences, FiniteSets, TLC

VARIABLES pc, fn, args, ret, handed

vars == <<pc, fn, args, ret, handed>>

---------------------------------------------------------------------------
(* Bounds of the model *)

\* largest pixel intensity of the enumerated images
MaxIntensity == 2

---------------------------------------------------------------------------
(* Python values *)

PyInt(n) == [type |-> "int", num |-> n, den |-> 1]

PyFloat(n, d) == [type |-> "float", num |-> n, den |-> d]

PyTuple(items) == [type |-> "tuple", items |-> items]

NaN == [type |-> "nan"]

Inf == [type |-> "inf"]

Returned(v) == [status |-> "ok", value |-> v]

Raised(e) == [status |-> "raise", error |-> e]

Pending == [status |-> "pending"]

NoCall == [fn |-> "none"]

SetMax(S) == CHOOSE m \in S : \A x \in S : x <= m

SetMin(S) == CHOOSE m \in S : \A x \in S : m <= x

\* every index tuple of an array of the given shape
Coords(shape) ==
    {c \in [1..Len(shape) -> 0..(SetMax({shape[k] : k \in 1..Len(shape)} \cup {1}) - 1)] :
        \A k \in 1..Len(shape) : c[k] < shape[k]}

\* row-major (C order) comparison of two index tuples: a strictly before b
RowMajorLess(a, b) ==
    \E k \in 1..Len(a) :
        /\ a[k] < b[k]
        /\ \A j \in 1..(k - 1) : a[j] = b[j]

Array(shape, dtype, px) ==
    [type |-> "ndarray", shape |-> shape, dtype |-> dtype, px |-> px, nan |-> {}]

ndim(arr) == Len(arr.shape)

\* the index tuples of an array
Indices(arr) == DOMAIN arr.px

---------------------------------------------------------------------------
(* bigfish.stack validators *)

ImageDtypes == {"uint8", "uint16", "float32", "float64"}

\* stack.check_array: TRUE when the array passes
check_array(arr, ndims, dtypes, allow_nan) ==
    /\ ndim(arr) \in ndims
    /\ arr.dtype \in dtypes
    /\ (allow_nan \/ arr.nan = {})

\* stack.check_parameter: TRUE when the value has one of the expected types
check_parameter(value, types) == value.type \in types

---------------------------------------------------------------------------
(* local_maximum_detection *)

\* kernel_size = int(2 * minimum_distance + 1)
KernelSize(md) == (2 * md.num + md.den) \div md.den

\* scipy.ndimage footprint of a window of the given size along one axis:
\* the window is anchored at index size // 2
WindowOffsets(size) == (0 - (size \div 2)) .. (size - (size \div 2) - 1)

\* scipy.ndimage mode='reflect' (d c b a | a b c d | d c b a)
Reflect(i, n) ==
    LET m == i % (2 * n)
    IN IF m < n THEN m ELSE 2 * n - 1 - m

\* the window of per-axis sizes around index tuple c, as offset tuples
Window(sizes) ==
    {o \in [1..Len(sizes) ->
                SetMin({SetMin(WindowOffsets(sizes[k])) : k \in 1..Len(sizes)}) ..
                SetMax({SetMax(WindowOffsets(sizes[k])) : k \in 1..Len(sizes)})] :
        \A k \in 1..Len(sizes) : o[k] \in WindowOffsets(sizes[k])}

\* ndi.maximum_filter(image, size=kernel_size), default mode 'reflect'
maximum_filter(arr, size) ==
    LET sizes == [k \in 1..ndim(arr) |-> size]
        at(c, o) == [k \in 1..ndim(arr) |-> Reflect(c[k] + o[k], arr.shape[k])]
    IN [c \in Indices(arr) |->
            SetMax({arr.px[at(c, o)] : o \in Window(sizes)})]

local_maximum_detection(image, minimum_distance) ==
    IF ~check_array(image, {2, 3}, ImageDtypes, FALSE)
    THEN Raised("ValidationError")
    ELSE IF ~check_parameter(minimum_distance, {"float", "int"})
    THEN Raised("ValidationError")
    ELSE LET kernel_size == KernelSize(minimum_distance)
             image_filtered == maximum_filter(image, kernel_size)
             mask == [c \in Indices(image) |-> image.px[c] = image_filtered[c]]
         IN Returned(Array(image.shape, "bool", mask))

---------------------------------------------------------------------------
(* Inputs of the local-maximum calls *)

LmShapes == {<<2, 3>>, <<1, 5>>, <<2, 1, 3>>}

LmImages ==
    UNION {{Array(s, "uint8", p) : p \in [Coords(s) -> 0..MaxIntensity]} : s \in LmShapes}

MinimumDistances ==
    {PyInt(0), PyInt(1), PyInt(2), PyFloat(1, 2), PyFloat(1, 1), PyFloat(3, 2), PyFloat(3, 4)}

InitLm ==
    /\ pc = "call"
    /\ fn = "local_maximum_detection"
    /\ args \in [image : LmImages, minimum_distance : MinimumDistances]
    /\ ret = Pending
    /\ handed = NoCall

LocalMaximumDetection ==
    /\ pc = "call"
    /\ fn = "local_maximum_detection"
    /\ ret' = local_maximum_detection(args.image, args.minimum_distance)
    /\ pc' = "done"
    /\ UNCHANGED <<fn, args, handed>>

SpecLm == InitLm /\ [][LocalMaximumDetection]_vars

---------------------------------------------------------------------------
(* Properties of local_maximum_detection *)

LmDone == pc = "done" /\ fn = "local_maximum_detection"

\* the pixels of the centred window of half-width minimum_distance around
\* c, clipped at the border: those within minimum_distance of c on every axis
CentredWindow(c) ==
    {d \in Indices(args.image) :
        \A k \in 1..Len(c) :
            /\ (d[k] - c[k]) * args.minimum_distance.den <= args.minimum_distance.num
            /\ (c[k] - d[k]) * args.minimum_distance.den <= args.minimum_distance.num}

IsWindowMaximum(c) ==
    \A d \in CentredWindow(c) : args.image.px[c] >= args.image.px[d]

\* C4 (as claimed): for every accepted minimum_distance the mask has the
\* shape of the image and a pixel is true if and only if its value is >=
\* every value in the centred window of side 2 * minimum_distance + 1
LocalMaxIffWindowMax ==
    LmDone =>
        /\ ret.status = "ok"
        /\ ret.value.shape = args.image.shape
        /\ \A c \in Indices(args.image) : ret.value.px[c] <=> IsWindowMaximum(c)

\* the same statement for the whole-number distances (1, 2.0, ...), the
\* ones for which int(2 * minimum_distance + 1) is odd: it holds
LocalMaxIffWindowMaxWhole ==
    (LmDone /\ args.minimum_distance.num % args.minimum_distance.den = 0) =>
        /\ ret.status = "ok"
        /\ ret.value.shape = args.image.shape
        /\ \A c \in Indices(args.image) : ret.value.px[c] <=> IsWindowMaximum(c)

---------------------------------------------------------------------------
(* spots_thresholding *)

\* number of elements of an array of the given shape
RECURSIVE ShapeSize(_)
ShapeSize(shape) ==
    IF shape = <<>> THEN 1 ELSE Head(shape) * ShapeSize(Tail(shape))

\* index tuple of the i-th element (0-based) in C order
Unravel(i, shape) ==
    [k \in 1..Len(shape) |->
        (i \div ShapeSize(SubSeq(shape, k + 1, Len(shape)))) % shape[k]]

\* image >= threshold, elementwise
GreaterOrEqual(image, c, thr) ==
    /\ c \notin image.nan
    /\ thr.type # "nan"
    /\ image.px[c] * thr.den >= thr.num

\* image > threshold, elementwise (a comparison with NaN is False)
GreaterThan(image, c, thr) ==
    /\ c \notin image.nan
    /\ thr.type # "nan"
    /\ image.px[c] * thr.den > thr.num

\* np.column_stack(np.nonzero(mask)): one row per True element, found by
\* scanning the array in C order
nonzero_rows(shape, mask) ==
    SelectSeq([i \in 1..ShapeSize(shape) |-> Unravel(i - 1, shape)],
              LAMBDA c : mask[c])

\* an (n, width) int64 coordinate array
SpotArray(rows, width) ==
    [type |-> "ndarray", shape |-> <<Len(rows), width>>, dtype |-> "int64",
     rows |-> rows, nan |-> {}]

\* np.sqrt(ndim) * sigma_, kept symbolic
SqrtTimes(n, s) == [type |-> "float", sqrt |-> n, times |-> s]

spots_thresholding(image, sigma, mask_lm, threshold) ==
    IF ~check_array(image, {2, 3}, ImageDtypes, FALSE)
    THEN Raised("ValidationError")
    ELSE IF ~check_array(mask_lm, {2, 3}, {"bool"}, FALSE)
    THEN Raised("ValidationError")
    ELSE IF ~(check_parameter(sigma, {"float", "int", "tuple"})
              /\ check_parameter(threshold, {"float", "int"}))
    THEN Raised("ValidationError")
    ELSE LET mask == [c \in Indices(image) |->
                         mask_lm.px[c] /\ GreaterThan(image, c, threshold)]
             spots == SpotArray(nonzero_rows(image.shape, mask), ndim(image))
             radius == IF sigma.type = "tuple"
                       THEN PyTuple([k \in 1..Len(sigma.items) |->
                                        SqrtTimes(ndim(image), sigma.items[k])])
                       ELSE SqrtTimes(ndim(image), sigma)
         IN Returned([spots |-> spots, radius |-> radius,
                      mask |-> Array(image.shape, "bool", mask)])

---------------------------------------------------------------------------
(* Inputs of the thresholding calls *)

ThrShapes == {<<2, 2>>, <<1, 2, 2>>}

ThrImages ==
    UNION {{Array(s, "uint8", p) : p \in [Coords(s) -> 0..MaxIntensity]} : s \in ThrShapes}

Masks(shape) == {Array(shape, "bool", m) : m \in [Coords(shape) -> BOOLEAN]}

Thresholds == {PyInt(0), PyInt(1), PyInt(2), PyFloat(1, 2), PyFloat(3, 2)}

ThrSigmas == {PyFloat(3, 2), PyTuple(<<PyFloat(3, 2), PyInt(2)>>)}

InitThr ==
    /\ pc = "call"
    /\ fn = "spots_thresholding"
    /\ \E im \in ThrImages :
          args \in [image : {im}, sigma : ThrSigmas, mask_lm : Masks(im.shape),
                    threshold : Thresholds]
    /\ ret = Pending
    /\ handed = NoCall

SpotsThresholding ==
    /\ pc = "call"
    /\ fn = "spots_thresholding"
    /\ ret' = spots_thresholding(args.image, args.sigma, args.mask_lm, args.threshold)
    /\ pc' = "done"
    /\ UNCHANGED <<fn, args, handed>>

SpecThr == InitThr /\ [][SpotsThresholding]_vars

---------------------------------------------------------------------------
(* Properties of spots_thresholding *)

ThrDone == pc = "done" /\ fn = "spots_thresholding"

\* the positions where the mask is true and the image strictly above the
\* threshold
AboveThreshold ==
    {c \in Indices(args.image) :
        /\ args.mask_lm.px[c]
        /\ args.image.px[c] * args.threshold.den > args.threshold.num}

\* C5: spots_thresholding returns one row for exactly each position where
\* the mask is true and the image is strictly above the threshold, in
\* row-major order, every coordinate inside the image; with no such
\* position the result is an empty (0, ndim) array
SpotsAreMaskedAboveThreshold ==
    ThrDone =>
        /\ ret.status = "ok"
        /\ LET spots == ret.value.spots
           IN /\ {spots.rows[i] : i \in 1..Len(spots.rows)} = AboveThreshold
              /\ Len(spots.rows) = Cardinality(AboveThreshold)
              /\ spots.shape = <<Cardinality(AboveThreshold), Len(args.image.shape)>>
              /\ \A i \in 1..(Len(spots.rows) - 1) :
                    RowMajorLess(spots.rows[i], spots.rows[i + 1])
              /\ \A i \in 1..Len(spots.rows) :
                    \A k \in 1..Len(args.image.shape) :
                        0 <= spots.rows[i][k] /\ spots.rows[i][k] < args.image.shape[k]

\* a call returning several rows while a local maximum equal to the
\* threshold and a brighter pixel off the mask are left out
SpotsAreMaskedAboveThresholdWitness ==
    /\ ThrDone
    /\ ret.status = "ok"
    /\ Len(ret.value.spots.rows) >= 2
    /\ \E c \in Indices(args.image) :
          /\ args.mask_lm.px[c]
          /\ args.image.px[c] * args.threshold.den = args.threshold.num
    /\ \E c \in Indices(args.image) :
          /\ ~args.mask_lm.px[c]
          /\ args.image.px[c] * args.threshold.den > args.threshold.num

---------------------------------------------------------------------------
(* filter_cc *)

\* skimage.measure.regionprops(cc, intensity_image=image): one entry per
\* positive label, ascending; bbox is (min_0, .., min_n, max_0, .., max_n)
\* with every max one past the region's largest index (half-open interval)
RegionOf(image, cc, l) ==
    LET pixels == {c \in Indices(cc) : cc.px[c] = l}
        lo == [k \in 1..ndim(cc) |-> SetMin({c[k] : c \in pixels})]
        hi == [k \in 1..ndim(cc) |-> SetMax({c[k] : c \in pixels}) + 1]
    IN [label |-> l,
        coords |-> pixels,
        area |-> Cardinality(pixels),
        max_intensity |-> IF pixels \cap image.nan # {} THEN NaN
                          ELSE PyInt(SetMax({image.px[c] : c \in pixels})),
        bbox |-> lo \o hi]

regionprops(cc, image) ==
    LET labels == {cc.px[c] : c \in Indices(cc)} \ {0}
        top == SetMax(labels \cup {0})
    IN SelectSeq([l \in 1..top |-> IF l \in labels THEN RegionOf(image, cc, l)
                                                   ELSE [label |-> 0]],
                 LAMBDA r : r.label # 0)

\* the six comparisons of one spot row against one bbox (lines 318-324, 350-356)
SpotInBox(row, box) ==
    LET min_z == box[1]
        min_y == box[2]
        min_x == box[3]
        max_z == box[4]
        max_y == box[5]
        max_x == box[6]
    IN /\ row[1] <= max_z
       /\ row[2] <= max_y
       /\ row[3] <= max_x
       /\ min_z <= row[1]
       /\ min_y <= row[2]
       /\ min_x <= row[3]

\* np.median of a non-empty sequence of integers, as the rational num/den
Median(values) ==
    LET sorted == SortSeq(values, LAMBDA a, b : a < b)
        n == Len(sorted)
    IN IF n % 2 = 1
       THEN [num |-> sorted[(n + 1) \div 2], den |-> 1]
       ELSE [num |-> sorted[n \div 2] + sorted[n \div 2 + 1], den |-> 2]

\* the boolean index regions[mask]
BoolIndex(seq, keep) ==
    LET idx == SelectSeq([i \in 1..Len(seq) |-> i], LAMBDA i : keep[i])
    IN [j \in 1..Len(idx) |-> seq[idx[j]]]

\* the area prefilter: regions[area > min_area]
BigArea(regions, min_area) ==
    BoolIndex(regions, [i \in 1..Len(regions) |-> regions[i].area > min_area.num])

\* the spot rows the early return of lines 309-312 hands back
EarlySpotsOut(spots) == SpotArray(<<>>, 2)

\* nb_spots_in > min_nb_spots
MultipleSpots(region, spots, min_nb_spots) ==
    Cardinality({i \in 1..Len(spots.rows) : SpotInBox(spots.rows[i], region.bbox)})
        > min_nb_spots.num

\* intensity > np.median(intensity) * min_intensity_factor, the median taken
\* over the regions that passed the area prefilter (NaN as soon as one of
\* them holds a NaN, and every comparison with it False)
HighIntensity(region, regions, factor) ==
    IF \E i \in 1..Len(regions) : regions[i].max_intensity.type = "nan"
    THEN FALSE
    ELSE LET med == Median([i \in 1..Len(regions) |-> regions[i].max_intensity.num])
         IN region.max_intensity.num * med.den * factor.den > med.num * factor.num

\* mask = multiple_spots & high_intensity
KeepMaskAnd(regions, spots, min_nb_spots, factor) ==
    [i \in 1..Len(regions) |->
        /\ MultipleSpots(regions[i], spots, min_nb_spots)
        /\ HighIntensity(regions[i], regions, factor)]

\* mask = multiple_spots | high_intensity
KeepMask(regions, spots, min_nb_spots, factor) ==
    [i \in 1..Len(regions) |->
        \/ MultipleSpots(regions[i], spots, min_nb_spots)
        \/ HighIntensity(regions[i], regions, factor)]

\* the boxes of every region that passed the area prefilter (bbox left
\* unfiltered by mask)
OutBoxesUnfiltered(regions, keep) == [j \in 1..Len(regions) |-> regions[j].bbox]

\* the boxes the spots are tested against in the last loop: bbox[mask]
OutBoxes(regions, keep) ==
    LET kept == BoolIndex(regions, keep)
    IN [j \in 1..Len(kept) |-> kept[j].bbox]

\* spots[mask_spots_out]
SpotsOut(spots, boxes) ==
    LET mask_spots_out == [i \in 1..Len(spots.rows) |->
                              \A j \in 1..Len(boxes) : ~SpotInBox(spots.rows[i], boxes[j])]
    IN SpotArray(BoolIndex(spots.rows, mask_spots_out), spots.shape[2])

filter_cc(image, cc, spots, min_area, min_nb_spots, min_intensity_factor) ==
    IF ~(/\ check_array(image, {2, 3}, ImageDtypes, TRUE)
         /\ check_array(cc, {2, 3}, {"int64"}, TRUE)
         /\ check_array(spots, {2}, {"int64"}, TRUE)
         /\ check_parameter(min_area, {"int"})
         /\ check_parameter(min_nb_spots, {"int"})
         /\ check_parameter(min_intensity_factor, {"float", "int"}))
    THEN Raised("ValidationError")
    ELSE LET regions == BigArea(regionprops(cc, image), min_area)
         IN IF Len(regions) = 0
            THEN Returned([regions_filtered |-> <<>>,
                           spots_out_region |-> EarlySpotsOut(spots)])
            ELSE IF ndim(cc) # 3 \/ spots.shape[2] < 3
            THEN Raised("ValueError")
            ELSE LET mask == KeepMask(regions, spots, min_nb_spots, min_intensity_factor)
                 IN Returned([regions_filtered |-> BoolIndex(regions, mask),
                              spots_out_region |-> SpotsOut(spots, OutBoxes(regions, mask))])

---------------------------------------------------------------------------
(* Inputs of the filter_cc calls: 3-d volumes and 3-column spot rows, the  *)
(* documented contract of filter_cc (spots of shape (nb_spots, 3))         *)

\* largest label of the enumerated label images
MaxLabel == 2

\* largest number of spot rows handed to filter_cc
MaxSpots == 2

CcShapes == {<<1, 2, 2>>}

\* intensity 1 everywhere but for at most one brighter pixel of the first row
CcImages ==
    UNION {{Array(s, "uint16", [c \in Coords(s) |-> IF c = b THEN v ELSE 1]) :
                b \in {c \in Coords(s) : c[2] = 0}, v \in 1..MaxIntensity} : s \in CcShapes}

LabelImages(shape) ==
    {Array(shape, "int64", p) : p \in [Coords(shape) -> 0..MaxLabel]}

\* distinct spots, in any order
SpotRows(shape) ==
    UNION {{r \in [1..n -> Coords(shape)] :
                \A i, j \in 1..n : i # j => r[i] # r[j]} : n \in 0..MaxSpots}

InitCc ==
    /\ pc = "call"
    /\ fn = "filter_cc"
    /\ \E im \in CcImages :
          args \in [image : {im},
                    cc : LabelImages(im.shape),
                    spots : {SpotArray(r, 3) : r \in SpotRows(im.shape)},
                    min_area : {PyInt(0), PyInt(1)},
                    min_nb_spots : {PyInt(0), PyInt(1)},
                    min_intensity_factor : {PyInt(1), PyFloat(3, 2)}]
    /\ ret = Pending
    /\ handed = NoCall

FilterCc ==
    /\ pc = "call"
    /\ fn = "filter_cc"
    /\ ret' = filter_cc(args.image, args.cc, args.spots, args.min_area,
                        args.min_nb_spots, args.min_intensity_factor)
    /\ pc' = "done"
    /\ UNCHANGED <<fn, args, handed>>

SpecCc == InitCc /\ [][FilterCc]_vars

---------------------------------------------------------------------------
(* from_threshold_to_snr *)

\* image.max(): NaN as soon as one element is NaN
ImageMax(image) ==
    IF image.nan # {} THEN NaN
    ELSE PyInt(SetMax({image.px[c] : c \in Indices(image)}))

\* scaling kept for fractional values only: a whole-number float is left as
\* it is
ResolveThresholdFractionalOnly(threshold, image) ==
    IF threshold.type = "float" /\ threshold.num % threshold.den # 0
    THEN LET top == ImageMax(image)
         IN IF top.type = "nan" THEN NaN
            ELSE PyFloat(threshold.num * top.num, threshold.den)
    ELSE threshold

\* if isinstance(threshold, float): threshold *= image.max()
ResolveThreshold(threshold, image) ==
    IF threshold.type = "float"
    THEN LET top == ImageMax(image)
         IN IF top.type = "nan" THEN NaN
            ELSE PyFloat(threshold.num * top.num, threshold.den)
    ELSE threshold

\* mask & (image > threshold)
ThresholdedMask(image, mask, thr) ==
    [c \in Indices(image) |-> mask.px[c] /\ GreaterThan(image, c, thr)]

\* int(np.sqrt(n) * x) for a rational x >= 0
TruncSqrtTimes(n, x) ==
    CHOOSE r \in 0..(2 * x.num) :
        /\ r * r * x.den * x.den <= n * x.num * x.num
        /\ n * x.num * x.num < (r + 1) * (r + 1) * x.den * x.den

Times(x, y) == PyFloat(x.num * y.num, x.den * y.den)

\* (z_radius, yx_radius) = (int(s * sigma[0]), int(s * sigma[1])), spread
\* over the axes as (z, yx, yx)
SignalRadius(image, sigma) ==
    LET z_radius == TruncSqrtTimes(ndim(image), sigma.items[1])
        yx_radius == TruncSqrtTimes(ndim(image), sigma.items[2])
    IN <<z_radius, yx_radius, yx_radius>>

\* (z_neigh, yx_neigh), spread over the axes as (z, yx, yx)
NoiseRadius(image, sigma, neighbor_factor) ==
    LET z_neigh == TruncSqrtTimes(ndim(image), Times(sigma.items[1], neighbor_factor))
        yx_neigh == TruncSqrtTimes(ndim(image), Times(sigma.items[2], neighbor_factor))
    IN <<z_neigh, yx_neigh, yx_neigh>>

\* the elements of the slice [c - r : c + r + 1] on every axis
Block(image, c, r) ==
    {d \in Indices(image) :
        \A k \in 1..Len(c) : c[k] - r[k] <= d[k] /\ d[k] <= c[k] + r[k]}

\* ndi.maximum_filter(mask_, size=(2r+1 per axis), mode='constant'): an
\* element is True when the mask holds a True within the window, elements
\* beyond the border counting as False
DilatedMask(image, mask_, radius) ==
    LET hits == {c \in Indices(image) : mask_[c]}
    IN [c \in Indices(image) |->
            \E d \in hits :
                \A k \in 1..Len(c) : c[k] - radius[k] <= d[k] /\ d[k] <= c[k] + radius[k]]

\* the margin test with strict comparisons
InsideMarginsStrict(image, c, neigh) ==
    \A k \in 1..3 : neigh[k] < c[k] /\ c[k] < image.shape[k] - neigh[k] - 1

\* the test of lines 463-465 on one spot
InsideMargins(image, c, neigh) ==
    \A k \in 1..3 : neigh[k] <= c[k] /\ c[k] <= image.shape[k] - neigh[k] - 1

RECURSIVE SumOver(_, _)
SumOver(S, px) ==
    IF S = {} THEN 0
    ELSE LET c == CHOOSE d \in S : TRUE
         IN px[c] + SumOver(S \ {c}, px)

\* the elements of local_signal that np.nanmean averages
SignalPixels(image, c, radius) == Block(image, c, radius) \ image.nan

\* the noise pixels with only the spot's own signal box left out
NoisePixelsOwnBoxOnly(image, dilated, c, radius, neigh) ==
    Block(image, c, neigh) \ Block(image, c, radius)

\* the elements of local_noise that np.nanstd keeps: the noise window less
\* the dilated mask, less the central block, less the NaN of the image
NoisePixels(image, dilated, c, radius, neigh) ==
    {d \in Block(image, c, neigh) \ Block(image, c, radius) :
        ~dilated[d] /\ d \notin image.nan}

\* np.nanmean(local_signal) / np.nanstd(local_noise): the mean is sum / n,
\* the standard deviation the square root of var_num / var_den
Ratio(image, signal, noise) ==
    LET n == Cardinality(noise)
        total == SumOver(noise, image.px)
        squares == SumOver(noise, [d \in noise |-> image.px[d] * image.px[d]])
        var_num == n * squares - total * total
        mean_num == SumOver(signal, image.px)
    IN IF signal = {} \/ noise = {} THEN NaN
       ELSE IF var_num = 0 THEN (IF mean_num = 0 THEN NaN ELSE Inf)
       ELSE [type |-> "float",
             mean |-> <<mean_num, Cardinality(signal)>>,
             var |-> <<var_num, n * n>>]

\* one pass of the loop of lines 457-486
SpotSnr(image, dilated, c, radius, neigh) ==
    IF InsideMargins(image, c, neigh)
    THEN Ratio(image, SignalPixels(image, c, radius),
               NoisePixels(image, dilated, c, radius, neigh))
    ELSE NaN

\* l_snr with the boundary spots skipped instead of appended as NaN
SnrListSkipBoundary(image, dilated, spot_coordinates, radius, neigh) ==
    LET inside == SelectSeq(spot_coordinates, LAMBDA c : InsideMargins(image, c, neigh))
    IN [i \in 1..Len(inside) |-> SpotSnr(image, dilated, inside[i], radius, neigh)]

\* l_snr, one append per spot
SnrList(image, dilated, spot_coordinates, radius, neigh) ==
    [i \in 1..Len(spot_coordinates) |->
        SpotSnr(image, dilated, spot_coordinates[i], radius, neigh)]

from_threshold_to_snr(image, sigma, mask, threshold, neighbor_factor) ==
    IF mask.type # "ndarray"
    THEN Raised("TypeError")
    ELSE LET mask_ == ThresholdedMask(image, mask, ResolveThreshold(threshold, image))
             spot_coordinates == nonzero_rows(image.shape, mask_)
         IN IF spot_coordinates = <<>>
            THEN Returned(<<>>)
            ELSE IF sigma.type # "tuple"
            THEN Raised("TypeError")
            ELSE IF Len(sigma.items) < 2
            THEN Raised("IndexError")
            ELSE IF ndim(image) # 3
            THEN Raised("RuntimeError")
            ELSE LET radius == SignalRadius(image, sigma)
                     neigh == NoiseRadius(image, sigma, neighbor_factor)
                     dilated == DilatedMask(image, mask_, radius)
                 IN Returned(SnrList(image, dilated, spot_coordinates, radius, neigh))

---------------------------------------------------------------------------
(* Inputs of the from_threshold_to_snr calls: 3-d volumes with a flat or   *)
(* checkerboard background but for at most two pixels, darker or brighter, *)
(* at the sites below                                                      *)

SnrScenes ==
    {[shape |-> <<1, 3, 4>>,
      sites |-> {<<0, 0, 0>>, <<0, 1, 0>>, <<0, 1, 1>>, <<0, 1, 2>>, <<0, 2, 2>>, <<0, 1, 3>>}],
     [shape |-> <<3, 3, 3>>,
      sites |-> {<<1, 1, 1>>, <<0, 1, 1>>, <<1, 0, 1>>, <<1, 1, 2>>, <<2, 2, 2>>}]}

\* the background: intensity 1 everywhere, or a checkerboard of 0 and 1
Background(flat, c) == IF flat THEN 1 ELSE (c[1] + c[2] + c[3]) % 2

SceneImages(scene) ==
    {Array(scene.shape, "uint16",
           [c \in Coords(scene.shape) |->
               IF c = a THEN v ELSE IF c = b THEN w ELSE Background(flat, c)]) :
        a \in scene.sites, b \in scene.sites, v \in 0..MaxIntensity, w \in 0..MaxIntensity,
        flat \in BOOLEAN}

\* no local maximum, every pixel one (minimum_distance = 0), or one site
SceneMasks(scene) ==
    {Array(scene.shape, "bool", [c \in Coords(scene.shape) |-> b]) : b \in BOOLEAN}
    \cup {Array(scene.shape, "bool", [c \in Coords(scene.shape) |-> c = a]) :
            a \in scene.sites}

SnrThresholds == {PyInt(0), PyInt(1), PyFloat(1, 2), PyFloat(1, 1)}

\* sqrt(3) * 1/10 and sqrt(3) * 1/4 truncate to 0, sqrt(3) * 3/5 to 1
SnrSigmas ==
    {PyTuple(<<PyFloat(1, 10), PyFloat(1, 4)>>),
     PyTuple(<<PyFloat(1, 4), PyFloat(1, 4)>>),
     PyTuple(<<PyFloat(1, 10), PyFloat(3, 5)>>),
     PyTuple(<<PyFloat(1, 10), PyFloat(1, 4), PyFloat(3, 5)>>),
     PyFloat(1, 4)}

NeighborFactors == {PyInt(1), PyInt(3)}

InitSnr ==
    /\ pc = "call"
    /\ fn = "from_threshold_to_snr"
    /\ \E scene \in SnrScenes :
          args \in [image : SceneImages(scene),
                    sigma : SnrSigmas,
                    mask : SceneMasks(scene),
                    threshold : SnrThresholds,
                    neighbor_factor : NeighborFactors]
    /\ ret = Pending
    /\ handed = NoCall

FromThresholdToSnr ==
    /\ pc = "call"
    /\ fn = "from_threshold_to_snr"
    /\ ret' = from_threshold_to_snr(args.image, args.sigma, args.mask,
                                    args.threshold, args.neighbor_factor)
    /\ pc' = "done"
    /\ UNCHANGED <<fn, args, handed>>

SpecSnr == InitSnr /\ [][FromThresholdToSnr]_vars

---------------------------------------------------------------------------
(* Properties of filter_cc *)

FilterCcDone == pc = "done" /\ fn = "filter_cc"

\* what the claims call a region's features, read off the label image
CcLabels == {args.cc.px[c] : c \in Indices(args.cc)} \ {0}

AreaOf(l) == Cardinality({c \in Indices(args.cc) : args.cc.px[c] = l})

MaxIntensityOf(l) ==
    SetMax({args.image.px[c] : c \in {d \in Indices(args.cc) : args.cc.px[d] = l}})

AreaSurvivors == {l \in CcLabels : AreaOf(l) > args.min_area.num}

\* the bounding box regionprops reports for label l, and the test filter_cc
\* applies to it: box[k] <= coordinate <= box[k + 3] on the three axes
ReportedBox(l) ==
    LET pixels == {c \in Indices(args.cc) : args.cc.px[c] = l}
    IN [k \in 1..6 |-> IF k <= 3 THEN SetMin({c[k] : c \in pixels})
                                 ELSE SetMax({c[k - 3] : c \in pixels}) + 1]

Encloses(box, row) == \A k \in 1..3 : box[k] <= row[k] /\ row[k] <= box[k + 3]

EnclosedCount(l) ==
    Cardinality({i \in 1..Len(args.spots.rows) : Encloses(ReportedBox(l), args.spots.rows[i])})

\* v is the j-th smallest of the max intensities of the area survivors
IsRanked(v, j) ==
    /\ \E l \in AreaSurvivors : MaxIntensityOf(l) = v
    /\ Cardinality({l \in AreaSurvivors : MaxIntensityOf(l) < v}) < j
    /\ j <= Cardinality({l \in AreaSurvivors : MaxIntensityOf(l) <= v})

\* twice the median of the max intensities of the area survivors
TwiceMedian ==
    LET n == Cardinality(AreaSurvivors)
        values == {MaxIntensityOf(l) : l \in AreaSurvivors}
        lowMid == CHOOSE v \in values : IsRanked(v, (n + 1) \div 2)
        highMid == CHOOSE v \in values : IsRanked(v, n \div 2 + 1)
    IN lowMid + highMid

PassesSpots(l) == EnclosedCount(l) > args.min_nb_spots.num

PassesIntensity(l, twiceMedian) ==
    2 * MaxIntensityOf(l) * args.min_intensity_factor.den
        > twiceMedian * args.min_intensity_factor.num

KeptLabels ==
    {ret.value.regions_filtered[i].label : i \in 1..Len(ret.value.regions_filtered)}

FilterCcNoRegionReturnsAllSpots ==
    (FilterCcDone /\ AreaSurvivors = {}) =>
        /\ ret.status = "ok"
        /\ ret.value.regions_filtered = <<>>
        /\ ret.value.spots_out_region.rows = args.spots.rows
        /\ ret.value.spots_out_region.shape = args.spots.shape

\* the indices of the spot rows enclosed by no kept region's reported box
OutsideIndices ==
    {i \in 1..Len(args.spots.rows) :
        \A l \in KeptLabels : ~Encloses(ReportedBox(l), args.spots.rows[i])}

---------------------------------------------------------------------------
(* log_lm, get_cc, log_cc, compute_snr *)

\* default of log_lm's minimum_distance parameter
DefaultMinimumDistance == 1

\* what stack.log_filter(image, sigma, keep_dtype=True) may return: an
\* array of the shape and dtype of the image, free of NaN
LogOutputs(image) ==
    {Array(image.shape, image.dtype, p) : p \in [Indices(image) -> 0..1]}

\* log_lm, image_filtered being the array stack.log_filter returned
log_lm(image, sigma, threshold, minimum_distance, image_filtered) ==
    IF ~check_array(image, {2, 3}, ImageDtypes, FALSE)
    THEN Raised("ValidationError")
    ELSE IF ~(/\ check_parameter(sigma, {"float", "int", "tuple"})
              /\ check_parameter(minimum_distance, {"float", "int"})
              /\ check_parameter(threshold, {"float", "int"}))
    THEN Raised("ValidationError")
    ELSE LET found == local_maximum_detection(image_filtered, minimum_distance)
         IN IF found.status # "ok" THEN found
            ELSE LET kept == spots_thresholding(image, sigma, found.value, threshold)
                 IN IF kept.status # "ok" THEN kept
                    ELSE Returned(PyTuple(<<kept.value.spots, kept.value.radius>>))

\* skimage.measure.label(mask): the connected components of the True
\* elements (neighbours differ by at most 1 on every axis), numbered from 1
\* in the row-major order of their first element; 0 is the background
RECURSIVE Component(_, _)
Component(S, foreground) ==
    LET grown == S \cup {d \in foreground :
                            \E e \in S : \A k \in 1..Len(d) :
                                d[k] - e[k] <= 1 /\ e[k] - d[k] <= 1}
    IN IF grown = S THEN S ELSE Component(grown, foreground)

label(mask) ==
    LET foreground == {c \in DOMAIN mask : mask[c]}
        first(c) == CHOOSE d \in Component({c}, foreground) :
                        \A e \in Component({c}, foreground) \ {d} : RowMajorLess(d, e)
        firsts == {first(c) : c \in foreground}
    IN [c \in DOMAIN mask |->
            IF mask[c]
            THEN Cardinality({d \in firsts : d = first(c) \/ RowMajorLess(d, first(c))})
            ELSE 0]

get_cc(image, threshold) ==
    IF ~check_array(image, {2, 3}, ImageDtypes, TRUE)
    THEN Raised("ValidationError")
    ELSE IF ~check_parameter(threshold, {"float", "int"})
    THEN Raised("ValidationError")
    ELSE LET mask == [c \in Indices(image) |-> GreaterThan(image, c, threshold)]
         IN Returned(Array(image.shape, "int64", label(mask)))

\* log_cc, image_filtered being the array stack.log_filter returned
log_cc(image, sigma, threshold, image_filtered) ==
    IF ~check_array(image, {2, 3}, ImageDtypes, FALSE)
    THEN Raised("ValidationError")
    ELSE IF ~(check_parameter(sigma, {"float", "int", "tuple"})
              /\ check_parameter(threshold, {"float", "int"}))
    THEN Raised("ValidationError")
    ELSE get_cc(image_filtered, threshold)

\* mask = log_lm(image, sigma, minimum_distance): the third positional
\* parameter of log_lm is threshold, minimum_distance keeps its default
compute_snr_mask(image, sigma, minimum_distance, image_filtered) ==
    log_lm(image, sigma, minimum_distance, PyInt(DefaultMinimumDistance), image_filtered)

\* the arguments of the call of lines 394-396
compute_snr_call(image, sigma, mask, threshold_signal_detection, neighbor_factor) ==
    [fn |-> "from_threshold_to_snr",
     image |-> image,
     sigma |-> sigma,
     mask |-> mask,
     threshold |-> threshold_signal_detection,
     neighbor_factor |-> neighbor_factor]

\* the exceptions `mask & (image > threshold)` raises for a mask that is no
\* array but a (spots, radius) pair, depending on the numpy at hand
PairMaskErrors == {Raised("TypeError"), Raised("ValueError")}

---------------------------------------------------------------------------
(* Inputs of the entry-point calls: valid 2-d and 3-d images, and images   *)
(* that are 1-d, of an unsupported dtype, or holding a NaN                 *)

EntryImages ==
    {Array(<<1, 3>>, "uint8", p) : p \in [Coords(<<1, 3>>) -> 0..MaxIntensity]}
    \cup {Array(<<1, 1, 2>>, "float64", p) : p \in [Coords(<<1, 1, 2>>) -> 0..MaxIntensity]}
    \cup {Array(<<2>>, "uint8", p) : p \in [Coords(<<2>>) -> 0..MaxIntensity]}
    \cup {Array(<<1, 1, 2>>, "int32", p) : p \in [Coords(<<1, 1, 2>>) -> 0..MaxIntensity]}
    \cup {[Array(<<1, 1, 2>>, "float64", p) EXCEPT !.nan = {<<0, 0, 0>>}] :
            p \in {q \in [Coords(<<1, 1, 2>>) -> 0..MaxIntensity] : q[<<0, 0, 0>>] = 0}}

EntrySigmas == {PyTuple(<<PyFloat(1, 10), PyFloat(1, 4)>>), PyFloat(1, 4)}

EntryThresholds == {PyInt(0), PyFloat(1, 2)}

EntryArgs(f, im) ==
    CASE f = "log_lm" ->
            [image : {im}, sigma : EntrySigmas, threshold : EntryThresholds,
             minimum_distance : {PyInt(1)}]
      [] f = "local_maximum_detection" ->
            [image : {im}, minimum_distance : {PyInt(1), PyFloat(1, 2)}]
      [] f = "spots_thresholding" ->
            [image : {im}, sigma : EntrySigmas, mask_lm : Masks(im.shape),
             threshold : EntryThresholds]
      [] f = "log_cc" ->
            [image : {im}, sigma : EntrySigmas, threshold : EntryThresholds]
      [] f = "get_cc" ->
            [image : {im}, threshold : EntryThresholds]
      [] f = "filter_cc" ->
            [image : {im},
             cc : {Array(im.shape, "int64", p) : p \in [Coords(im.shape) -> 0..1]},
             spots : {SpotArray(<<>>, 3), SpotArray(<<<<0, 0, 0>>>>, 3)},
             min_area : {PyInt(0)}, min_nb_spots : {PyInt(0)},
             min_intensity_factor : {PyInt(1)}]
      [] f = "compute_snr" ->
            [image : {im}, sigma : EntrySigmas, minimum_distance : {PyInt(0), PyInt(1)},
             threshold_signal_detection : EntryThresholds, neighbor_factor : {PyInt(3)}]
      [] f = "from_threshold_to_snr" ->
            [image : {im}, sigma : EntrySigmas, mask : Masks(im.shape),
             threshold : EntryThresholds, neighbor_factor : {PyInt(3)}]

EntryPoints ==
    {"log_lm", "local_maximum_detection", "spots_thresholding", "log_cc", "get_cc",
     "filter_cc", "compute_snr", "from_threshold_to_snr"}

InitEntry ==
    /\ pc = "call"
    /\ fn \in EntryPoints
    /\ \E im \in EntryImages : args \in EntryArgs(fn, im)
    /\ ret = Pending
    /\ handed = NoCall

LogLm ==
    /\ pc = "call"
    /\ fn = "log_lm"
    /\ \E image_filtered \in LogOutputs(args.image) :
          ret' = log_lm(args.image, args.sigma, args.threshold, args.minimum_distance,
                        image_filtered)
    /\ pc' = "done"
    /\ UNCHANGED <<fn, args, handed>>

LogCc ==
    /\ pc = "call"
    /\ fn = "log_cc"
    /\ \E image_filtered \in LogOutputs(args.image) :
          ret' = log_cc(args.image, args.sigma, args.threshold, image_filtered)
    /\ pc' = "done"
    /\ UNCHANGED <<fn, args, handed>>

GetCc ==
    /\ pc = "call"
    /\ fn = "get_cc"
    /\ ret' = get_cc(args.image, args.threshold)
    /\ pc' = "done"
    /\ UNCHANGED <<fn, args, handed>>

ComputeSnr ==
    /\ pc = "call"
    /\ fn = "compute_snr"
    /\ \E image_filtered \in LogOutputs(args.image) :
          LET mask == compute_snr_mask(args.image, args.sigma, args.minimum_distance,
                                       image_filtered)
          IN IF mask.status # "ok"
             THEN /\ ret' = mask
                  /\ handed' = NoCall
             ELSE LET call == compute_snr_call(args.image, args.sigma, mask.value,
                                               args.threshold_signal_detection,
                                               args.neighbor_factor)
                  IN /\ handed' = call
                     /\ ret' \in IF call.mask.type = "ndarray"
                                 THEN {from_threshold_to_snr(call.image, call.sigma,
                                           call.mask, call.threshold, call.neighbor_factor)}
                                 ELSE PairMaskErrors
    /\ pc' = "done"
    /\ UNCHANGED <<fn, args>>

NextEntry ==
    \/ LogLm
    \/ LocalMaximumDetection
    \/ SpotsThresholding
    \/ LogCc
    \/ GetCc
    \/ FilterCc
    \/ ComputeSnr
    \/ FromThresholdToSnr

SpecEntry == InitEntry /\ [][NextEntry]_vars

---------------------------------------------------------------------------
(* Properties of from_threshold_to_snr *)

SnrDone == pc = "done" /\ fn = "from_threshold_to_snr"

\* the call reached the loop over the spots: sigma could be indexed
SnrLooped == SnrDone /\ ret.status = "ok" /\ ret.value # <<>>

\* the positions where mask AND image > thr, thr given as the rational
\* num / den
DetectedAbove(num, den) ==
    {c \in Indices(args.image) : args.mask.px[c] /\ args.image.px[c] * den > num}

BrightestPixel == SetMax({args.image.px[c] : c \in Indices(args.image)})

\* the detected positions when a float threshold is scaled by the image
\* maximum and an int threshold is not
Detected ==
    IF args.threshold.type = "float"
    THEN DetectedAbove(args.threshold.num * BrightestPixel, args.threshold.den)
    ELSE DetectedAbove(args.threshold.num, args.threshold.den)

\* the place of c among the positions of S listed in row-major order
RowMajorRank(c, S) == Cardinality({d \in S : d = c \/ RowMajorLess(d, c)})

\* the least distance, over the ends of axis k, from c to the boundary
BoundaryDistance(c, k) ==
    SetMin({c[k], args.image.shape[k] - 1 - c[k]})

TooClose(c) ==
    \E k \in 1..3 :
        BoundaryDistance(c, k)
            <= NoiseRadius(args.image, args.sigma, args.neighbor_factor)[k] - 1

FarEnough(c) ==
    \A k \in 1..3 :
        BoundaryDistance(c, k)
            >= NoiseRadius(args.image, args.sigma, args.neighbor_factor)[k]

\* the pixels of the noise window of c that lie in no signal box
NoiseLeft(c) ==
    LET radius == SignalRadius(args.image, args.sigma)
        neigh == NoiseRadius(args.image, args.sigma, args.neighbor_factor)
        near(a, b, r) == \A k \in 1..3 : a[k] - b[k] <= r[k] /\ b[k] - a[k] <= r[k]
    IN {d \in Indices(args.image) :
            /\ near(d, c, neigh)
            /\ \A e \in Detected : ~near(d, e, radius)}

SnrNotFiniteWitness ==
    /\ SnrLooped
    /\ LET neigh == NoiseRadius(args.image, args.sigma, args.neighbor_factor)
       IN \E c \in Detected :
             /\ FarEnough(c)
             /\ \E k \in 1..3 : BoundaryDistance(c, k) = neigh[k] /\ neigh[k] >= 1
             /\ ret.value[RowMajorRank(c, Detected)].type # "float"

\* C7: the returned list has one entry per position where mask AND image >
\* resolved threshold, entry i being the ratio or NaN of the i-th such
\* position in row-major order; no such position, empty list
SnrListAligned ==
    (SnrDone /\ ret.status = "ok") =>
        LET thr == ResolveThreshold(args.threshold, args.image)
            spots == {c \in Indices(args.image) :
                         args.mask.px[c] /\ GreaterThan(args.image, c, thr)}
            radius == SignalRadius(args.image, args.sigma)
            neigh == NoiseRadius(args.image, args.sigma, args.neighbor_factor)
            dilated == DilatedMask(args.image, ThresholdedMask(args.image, args.mask, thr),
                                   radius)
        IN /\ Len(ret.value) = Cardinality(spots)
           /\ \A c \in spots :
                 ret.value[RowMajorRank(c, spots)]
                     = SpotSnr(args.image, dilated, c, radius, neigh)

\* a call returning NaN for a boundary spot ahead of a finite ratio, with a
\* local maximum left out by the threshold
SnrListAlignedWitness ==
    /\ SnrLooped
    /\ Len(ret.value) >= 2
    /\ \E i, j \in 1..Len(ret.value) :
          i < j /\ ret.value[i] = NaN /\ ret.value[j].type = "float"
    /\ \E c \in Indices(args.image) : args.mask.px[c] /\ c \notin Detected

\* C8 (as claimed): the threshold compared against the image is the given
\* value times the image maximum for a fractional threshold, and the given
\* value for an absolute one, a whole-number float included
SnrThresholdWholeFloatAbsolute ==
    (SnrDone /\ ret.status = "ok") =>
        Len(ret.value) = Cardinality(
            IF args.threshold.type = "float" /\ args.threshold.num % args.threshold.den # 0
            THEN DetectedAbove(args.threshold.num * BrightestPixel, args.threshold.den)
            ELSE DetectedAbove(args.threshold.num, args.threshold.den))

\* C8 (amended): the threshold compared against the image is the given
\* value times the image maximum whenever the value is a float, a
\* whole-number float included, and the given value when it is an int
SnrThresholdScaledIffFloat ==
    SnrDone =>
        /\ ret.status = "ok" => Len(ret.value) = Cardinality(Detected)
        /\ ret.status = "raise" => Detected # {}

\* a call with the whole-number float threshold 1.0 on an image of maximum
\* above 1: a local maximum brighter than 1.0 is not detected
SnrThresholdWitness ==
    /\ SnrDone
    /\ ret.status = "ok"
    /\ args.threshold = PyFloat(1, 1)
    /\ BrightestPixel > 1
    /\ \E c \in Indices(args.image) : args.mask.px[c] /\ args.image.px[c] > 1
    /\ ret.value = <<>>

---------------------------------------------------------------------------
(* Properties of the entry points *)

\* the image of the call is one the validation contract rejects: not 2-d
\* or 3-d, of an unsupported dtype, or holding a NaN where none is allowed
\* (get_cc and filter_cc allow NaN)
ImageRejectable ==
    \/ Len(args.image.shape) \notin {2, 3}
    \/ args.image.dtype \notin {"uint8", "uint16", "float32", "float64"}
    \/ (args.image.nan # {} /\ fn \notin {"get_cc", "filter_cc"})

\* C9 (as claimed): every public entry point rejects an image that is not
\* 2-d or 3-d, of an unsupported dtype or holding a disallowed NaN by
\* raising a validation error
EveryEntryPointValidates ==
    (pc = "done" /\ ImageRejectable) => ret = Raised("ValidationError")

\* the same for the seven entry points other than from_threshold_to_snr
\* (compute_snr through the check_array of log_lm): it holds
OtherEntryPointsValidate ==
    (pc = "done" /\ ImageRejectable /\ fn # "from_threshold_to_snr") =>
        ret = Raised("ValidationError")

\* C10 (as claimed): what compute_snr hands to from_threshold_to_snr as
\* mask is the boolean mask of local_maximum_detection, of the shape of the
\* image, computed on the filtered image with the caller's minimum_distance
ComputeSnrHandsLocalMaxMask ==
    (fn = "compute_snr" /\ handed # NoCall) =>
        /\ handed.mask.type = "ndarray"
        /\ handed.mask.dtype = "bool"
        /\ handed.mask.shape = args.image.shape
        /\ \E image_filtered \in LogOutputs(args.image) :
              Returned(handed.mask)
                  = local_maximum_detection(image_filtered, args.minimum_distance)

---------------------------------------------------------------------------
(* Properties of the radii of from_threshold_to_snr *)

\* sqrt(n) * x rounded to the nearest integer, for a rational x >= 0
RoundSqrtTimes(n, x) ==
    CHOOSE r \in 0..(2 * x.num + 1) :
        /\ r = 0 \/ (2 * r - 1) * (2 * r - 1) * x.den * x.den <= 4 * n * x.num * x.num
        /\ 4 * n * x.num * x.num < (2 * r + 1) * (2 * r + 1) * x.den * x.den

\* the sigma of axis k of a 3-d image: the scalar itself, the k-th item of
\* a (sz, sy, sx) tuple, and for a (z, yx) pair the first item on axis z and
\* the second on axes y and x
AxisSigma(k) ==
    IF args.sigma.type # "tuple" THEN args.sigma
    ELSE IF Len(args.sigma.items) >= 3 THEN args.sigma.items[k]
    ELSE IF k = 1 THEN args.sigma.items[1]
    ELSE args.sigma.items[2]

\* C11 (as claimed): whenever a spot is detected the call goes through with
\* a scalar as with a per-axis sigma, and on each axis the signal radius is
\* sqrt(ndim) * sigma_axis rounded to the nearest integer and the noise
\* radius sqrt(ndim) * sigma_axis * neighbor_factor rounded to the nearest
\* integer, sigma_axis being that axis's own sigma
SnrRadiiRoundedPerAxis ==
    (SnrDone /\ Detected # {}) =>
        /\ ret.status = "ok"
        /\ SignalRadius(args.image, args.sigma)
             = [k \in 1..3 |-> RoundSqrtTimes(3, AxisSigma(k))]
        /\ NoiseRadius(args.image, args.sigma, args.neighbor_factor)
             = [k \in 1..3 |-> RoundSqrtTimes(3, Times(AxisSigma(k), args.neighbor_factor))]

\* with a (z, yx) pair of sigmas the radii are sqrt(ndim) * sigma and
\* sqrt(ndim) * sigma * neighbor_factor truncated toward zero, the second
\* item of sigma serving axes y and x: it holds
SnrRadiiTruncatedZYx ==
    (SnrDone /\ Detected # {}) =>
        /\ ret.status = "ok" <=> args.sigma.type = "tuple"
        /\ ret.status = "ok" =>
              /\ \A k \in 2..3 :
                    /\ SignalRadius(args.image, args.sigma)[k]
                         = TruncSqrtTimes(3, args.sigma.items[2])
                    /\ NoiseRadius(args.image, args.sigma, args.neighbor_factor)[k]
                         = TruncSqrtTimes(3, Times(args.sigma.items[2], args.neighbor_factor))
              /\ SignalRadius(args.image, args.sigma)[1]
                   = TruncSqrtTimes(3, args.sigma.items[1])

---------------------------------------------------------------------------
(* Properties of the enclosure test of filter_cc *)

\* the smallest axis-aligned box enclosing region l: on axis k from the
\* smallest to the largest index the region occupies
SmallestIndex(l, k) == SetMin({c[k] : c \in {d \in Indices(args.cc) : args.cc.px[d] = l}})

LargestIndex(l, k) == SetMax({c[k] : c \in {d \in Indices(args.cc) : args.cc.px[d] = l}})

InSmallestBox(l, row) ==
    \A k \in 1..3 : SmallestIndex(l, k) <= row[k] /\ row[k] <= LargestIndex(l, k)

\* C12 (as claimed): a spot counts as enclosed by a region exactly when it
\* lies, on every axis, between the smallest and the largest index the
\* region occupies, both inclusive: the regions kept on their spot count
\* are those enclosing more than min_nb_spots spots in that sense, and the
\* spots returned as outside are those in the smallest box of no kept region
FilterCcEnclosesInSmallestBox ==
    (FilterCcDone /\ AreaSurvivors # {}) =>
        /\ ret.status = "ok"
        /\ LET kept == KeptLabels
               med == TwiceMedian
               count(l) == Cardinality({i \in 1..Len(args.spots.rows) :
                                           InSmallestBox(l, args.spots.rows[i])})
               returned == {ret.value.spots_out_region.rows[j] :
                               j \in 1..Len(ret.value.spots_out_region.rows)}
           IN /\ kept = {l \in AreaSurvivors :
                           count(l) > args.min_nb_spots.num \/ PassesIntensity(l, med)}
              /\ \A i \in 1..Len(args.spots.rows) :
                    args.spots.rows[i] \in returned
                        <=> \A l \in kept : ~InSmallestBox(l, args.spots.rows[i])

---------------------------------------------------------------------------
(* Properties of the window of local_maximum_detection *)

\* the window of the given size is centred: it reaches as far before the
\* pixel as after it
IsCentred(size) ==
    0 - SetMin(WindowOffsets(size)) = SetMax(WindowOffsets(size))

\* the window size is odd, equal to 2 * minimum_distance + 1 and centred
\* on the pixel; with minimum_distance = 0 it is 1 and the mask all true
KernelOddAndCentred ==
    LET md == args.minimum_distance
        kernel_size == KernelSize(md)
    IN /\ ret.status = "ok"
       /\ kernel_size % 2 = 1
       /\ kernel_size * md.den = 2 * md.num + md.den
       /\ IsCentred(kernel_size)
       /\ md.num = 0 =>
             /\ kernel_size = 1
             /\ \A c \in Indices(args.image) : ret.value.px[c]

\* C13 (as claimed): for every minimum_distance the parameter check
\* accepts, int or float, non-integer values such as 0.5 included, the
\* maximum filter uses an odd window of size 2 * minimum_distance + 1
\* centred on the pixel, and with minimum_distance = 0 the window has size 1
\* and the mask is all true
KernelOddAndCentredAlways == LmDone => KernelOddAndCentred

\* the same for the whole-number distances only (0, 1, 2, 1.0): it holds
KernelOddAndCentredWhole ==
    (LmDone /\ args.minimum_distance.num % args.minimum_distance.den = 0) =>
        KernelOddAndCentred

---------------------------------------------------------------------------
(* Inputs of the from_threshold_to_snr calls on a wider plane, where a     *)
(* spot with signal radius 1 and noise radius 2 lies inside the margins    *)
(* and other spots reach into its noise window                             *)

WideScene ==
    [shape |-> <<1, 5, 5>>,
     sites |-> {<<0, 2, 2>>, <<0, 2, 3>>, <<0, 2, 4>>, <<0, 0, 0>>}]

\* sqrt(3) * 3/5 truncates to 1 and sqrt(3) * 6/5 to 2; sqrt(3) * 1/4 to 0
\* and sqrt(3) * 3/4 to 1
WideSigmas ==
    {PyTuple(<<PyFloat(1, 10), PyFloat(3, 5)>>),
     PyTuple(<<PyFloat(1, 10), PyFloat(1, 4)>>)}

WideNeighborFactors == {PyInt(2), PyInt(3)}

WideThresholds == {PyInt(0), PyInt(1), PyFloat(1, 2)}

InitSnrWide ==
    /\ pc = "call"
    /\ fn = "from_threshold_to_snr"
    /\ args \in [image : SceneImages(WideScene),
                 sigma : WideSigmas,
                 mask : SceneMasks(WideScene),
                 threshold : WideThresholds,
                 neighbor_factor : WideNeighborFactors]
    /\ ret = Pending
    /\ handed = NoCall

SpecSnrWide == InitSnrWide /\ [][FromThresholdToSnr]_vars

---------------------------------------------------------------------------
(* Properties of the noise term of from_threshold_to_snr *)

\* d lies within r of c on every axis
Within(d, c, r) == \A k \in 1..3 : d[k] - c[k] <= r[k] /\ c[k] - d[k] <= r[k]

\* the full signal window of c
SignalWindow(c) ==
    {d \in Indices(args.image) : Within(d, c, SignalRadius(args.image, args.sigma))}

\* the pixels of the noise window of c outside the signal box of every
\* detected spot
NoiseOutsideBoxes(c) ==
    LET radius == SignalRadius(args.image, args.sigma)
        neigh == NoiseRadius(args.image, args.sigma, args.neighbor_factor)
        spots == Detected
    IN {d \in Indices(args.image) :
            /\ Within(d, c, neigh)
            /\ \A e \in spots : ~Within(d, e, radius)}

\* C14: for every spot whose SNR is computed, the value is the mean of the
\* image over the full signal window divided by the standard deviation of
\* the image over the pixels of the noise window that lie in the signal box
\* of no detected spot, this spot included
SnrNoiseOutsideEverySignalBox ==
    SnrLooped =>
        \A c \in Detected :
            FarEnough(c) =>
                ret.value[RowMajorRank(c, Detected)]
                    = Ratio(args.image, SignalWindow(c), NoiseOutsideBoxes(c))

\* a spot with a finite SNR, signal radius 1 on an axis, and another
\* detected spot outside its signal box whose own signal box reaches into
\* its noise window
SnrNoiseOutsideEverySignalBoxWitness ==
    /\ SnrLooped
    /\ SignalRadius(args.image, args.sigma)[3] = 1
    /\ \E c, e \in Detected :
          /\ FarEnough(c)
          /\ ~Within(e, c, SignalRadius(args.image, args.sigma))
          /\ \E d \in SignalWindow(e) :
                Within(d, c, NoiseRadius(args.image, args.sigma, args.neighbor_factor))
          /\ ret.value[RowMajorRank(c, Detected)].type = "float"

===========================================================================
